---- MODULE Spec2Model ----
(***************************************************************************)
(* A model of package xliff (src/xliff.go): the Document model, its        *)
(* constructor and mutator, the validator, the completeness predicate and  *)
(* the XML codec used by FromFile / ToFile.                                *)
(*                                                                         *)
(* A Go string is a sequence of one-character strings, so that strconv's   *)
(* parsing and formatting and the XML escaping are computed, not assumed.  *)
(* A fmt.Sprintf call is kept as the pair <<format, arguments>>.           *)
(***************************************************************************)
EXTENDS Integers, Sequences, FiniteSets, TLC

VARIABLES d, op, err, errors, complete, panicked, disk

vars == <<d, op, err, errors, complete, panicked, disk>>

----------------------------------------------------------------------------
\* Bounds of the model.

\* Most Files in a Document given to the program.
MaxFiles == 2
\* Most TransUnits (over all Files) in a Document given to the program;
\* AddTransUnit is called on a Document of at most MaxUnits TransUnits.
MaxUnits == 2
\* Most options passed to one AddTransUnit call.
MaxOpts == 2

----------------------------------------------------------------------------
\* String literals of the source, as character sequences.

EmptyString == <<>>
Version12 == <<"1", ".", "2">>
Plaintext == <<"p", "l", "a", "i", "n", "t", "e", "x", "t">>
MinusOne == <<"-", "1">>

\* The zero value of an error and of a []ValidationError.
nil == <<>>

----------------------------------------------------------------------------
\* strconv

DigitChars == <<"0", "1", "2", "3", "4", "5", "6", "7", "8", "9">>

IsDigit(ch) == \E i \in 1..10 : DigitChars[i] = ch

DigitValue(ch) == (CHOOSE i \in 1..10 : DigitChars[i] = ch) - 1

RECURSIVE ParseDigits(_, _)
\* The digit loop of strconv.Atoi: n = n*10 + digit, a syntax error on any
\* other byte.
ParseDigits(s, n) ==
  IF s = <<>> THEN [ok |-> TRUE, n |-> n]
  ELSE IF ~IsDigit(Head(s)) THEN [ok |-> FALSE, n |-> 0]
  ELSE ParseDigits(Tail(s), n * 10 + DigitValue(Head(s)))

\* strconv.Atoi: an optional sign, then at least one decimal digit.
Atoi(s) ==
  IF s = <<>> THEN [ok |-> FALSE, n |-> 0]
  ELSE LET signed == Head(s) = "-" \/ Head(s) = "+"
           digits == IF signed THEN Tail(s) ELSE s
           r      == ParseDigits(digits, 0)
       IN IF digits = <<>> THEN [ok |-> FALSE, n |-> 0]
          ELSE IF ~r.ok THEN r
          ELSE IF Head(s) = "-" THEN [ok |-> TRUE, n |-> 0 - r.n]
          ELSE r

RECURSIVE FormatDigits(_)
FormatDigits(n) ==
  IF n < 10 THEN <<DigitChars[n + 1]>>
  ELSE FormatDigits(n \div 10) \o <<DigitChars[(n % 10) + 1]>>

\* strconv.Itoa
Itoa(n) == IF n < 0 THEN <<"-">> \o FormatDigits(0 - n) ELSE FormatDigits(n)

----------------------------------------------------------------------------
\* fmt

Sprintf(format, args) == <<format, args>>

Sprint(args) == <<"%v%v", args>>

errorsNew(text) == <<text>>

----------------------------------------------------------------------------
\* The Document model.

Tool(id, name, version, build) ==
  [ToolID |-> id, ToolName |-> name, ToolVersion |-> version, BuildNum |-> build]

Header(tool) == [Tool |-> tool]

EmptyHeader == Header(Tool(EmptyString, EmptyString, EmptyString, EmptyString))

Body(units) == [TransUnits |-> units]

TransUnit(id, source, target, note) ==
  [ID |-> id, Source |-> source, Target |-> target, Note |-> note]

File(original, sl, datatype, tl, header, body) ==
  [Original |-> original, SourceLanguage |-> sl, Datatype |-> datatype,
   TargetLanguage |-> tl, Header |-> header, Body |-> body]

Document(version, files) == [Version |-> version, Files |-> files]

\* &Document{}
ZeroDocument == Document(EmptyString, <<>>)

\* NewDocument with the source language also given as the original.
NewDocumentMutant(sl, tl) ==
  Document(Version12,
           <<File(sl, sl, Plaintext, tl, EmptyHeader, Body(<<>>))>>)

NewDocument(sl, tl) ==
  Document(Version12,
           <<File(EmptyString, sl, Plaintext, tl, EmptyHeader, Body(<<>>))>>)

WithNote(note) == [set |-> "Note", value |-> note]

WithTarget(target) == [set |-> "Target", value |-> target]

\* opt(&tu)
ApplyOpt(opt, tu) ==
  IF opt.set = "Note" THEN [tu EXCEPT !.Note = opt.value]
  ELSE [tu EXCEPT !.Target = opt.value]

RECURSIVE ApplyOpts(_, _)
ApplyOpts(opts, tu) ==
  IF opts = <<>> THEN tu
  ELSE ApplyOpts(Tail(opts), ApplyOpt(Head(opts), tu))

\* lastId with 0 for the empty Body.
lastIdMutant(doc) ==
  IF Len(doc.Files) = 0 THEN [id |-> EmptyString, ok |-> FALSE]
  ELSE LET file == doc.Files[Len(doc.Files)]
       IN IF Len(file.Body.TransUnits) = 0 THEN [id |-> <<"0">>, ok |-> TRUE]
          ELSE [id |-> file.Body.TransUnits[Len(file.Body.TransUnits)].ID,
                ok |-> TRUE]

\* Document.lastId
lastId(doc) ==
  IF Len(doc.Files) = 0 THEN [id |-> EmptyString, ok |-> FALSE]
  ELSE LET file == doc.Files[Len(doc.Files)]
       IN IF Len(file.Body.TransUnits) = 0 THEN [id |-> MinusOne, ok |-> TRUE]
          ELSE [id |-> file.Body.TransUnits[Len(file.Body.TransUnits)].ID,
                ok |-> TRUE]

\* AddTransUnit without its first test.
NoFilesMutant(doc) == FALSE

\* len(d.Files) == 0, the first test of AddTransUnit.
NoFiles(doc) == Len(doc.Files) = 0

\* Appending to the first File.
TargetFileMutant(doc) == 1

\* The position in d.Files of the File AddTransUnit appends to:
\* &d.Files[len(d.Files)-1].
TargetFile(doc) == Len(doc.Files)

\* strconv.Atoi with its error dropped: numId, _ := strconv.Atoi(lastId).
ParseLastIDMutant(id) == [ok |-> TRUE, n |-> Atoi(id).n]

\* numId, err := strconv.Atoi(lastId), and whether err is nil.
ParseLastID(id) == Atoi(id)

\* Document.AddTransUnit: the Document after the call and the error returned.
AddTransUnit(doc, source, opts) ==
  IF NoFiles(doc)
  THEN [d |-> doc, err |-> errorsNew("document does not contain a file")]
  ELSE LET last == lastId(doc)
           num  == ParseLastID(last.id)
       IN IF ~last.ok
          THEN [d |-> doc, err |-> errorsNew("could not parse last TransUnit ID")]
          ELSE IF ~num.ok
          THEN [d |-> doc,
                err |-> errorsNew(Sprint(<<"last TransUnit ID is not a number:",
                                           last.id>>))]
          ELSE LET tu == ApplyOpts(opts, TransUnit(Itoa(num.n + 1), source,
                                                   EmptyString, EmptyString))
                   n  == TargetFile(doc)
               IN [d |-> [doc EXCEPT !.Files[n].Body.TransUnits = Append(@, tu)],
                   err |-> nil]

----------------------------------------------------------------------------
\* The validator.

UnsupportedVersion == 0
MissingOriginalAttribute == 1
MissingSourceLanguage == 2
MissingTargetLanguage == 3
UnsupportedDatatype == 4
InconsistentSourceLanguage == 5
InconsistentTargetLanguage == 6
MissingTransUnitID == 7
MissingTransUnitSource == 8
MissingTransUnitTarget == 9

ValidationError(code, message) == [Code |-> code, Message |-> message]

\* A validator that stops collecting at its first finding.
AppendIfMutant(errs, cond, ve) ==
  IF cond /\ errs = <<>> THEN Append(errs, ve) ELSE errs

\* if cond { errors = append(errors, ve) }
AppendIf(errs, cond, ve) == IF cond THEN Append(errs, ve) ELSE errs

CheckVersion(doc, errs) ==
  AppendIf(errs, doc.Version # Version12,
    ValidationError(UnsupportedVersion,
      Sprintf("Version %s is not supported", <<doc.Version>>)))

\* The body of the first loop over d.Files.
CheckFileAttributes(idx, file, errs) ==
  LET e1 == AppendIf(errs, file.Original = EmptyString,
              ValidationError(MissingOriginalAttribute,
                Sprintf("File #%d is missing 'original' attribute", <<idx>>)))
      e2 == AppendIf(e1, file.SourceLanguage = EmptyString,
              ValidationError(MissingSourceLanguage,
                Sprintf("File '%s' is missing 'source-language' attribute",
                        <<file.Original>>)))
      e3 == AppendIf(e2, file.TargetLanguage = EmptyString,
              ValidationError(MissingTargetLanguage,
                Sprintf("File '%s' is missing 'target-language' attribute",
                        <<file.Original>>)))
  IN AppendIf(e3, file.Datatype # Plaintext,
       ValidationError(UnsupportedDatatype,
         Sprintf("File '%s' has unsupported 'datatype' attribute with value '%s'",
                 <<file.Original, file.Datatype>>)))

\* The body of the second loop over d.Files.
CheckFileLanguages(file, sourceLanguage, targetLanguage, errs) ==
  LET e1 == AppendIf(errs, file.SourceLanguage # sourceLanguage,
              ValidationError(InconsistentSourceLanguage,
                Sprintf("File '%s' has inconsistent 'source-language' attribute '%s'",
                        <<file.Original, file.SourceLanguage>>)))
  IN AppendIf(e1, file.TargetLanguage # targetLanguage,
       ValidationError(InconsistentTargetLanguage,
         Sprintf("File '%s' has inconsistent 'target-language' attribute '%s'",
                 <<file.Original, file.TargetLanguage>>)))

\* The body of the loop over file.Body.TransUnits.
CheckTransUnit(idx, transUnit, file, errs) ==
  LET e1 == AppendIf(errs, transUnit.ID = EmptyString,
              ValidationError(MissingTransUnitID,
                Sprintf("Translation unit #%d in file '%s' is missing 'id' attribute",
                        <<idx, file.Original>>)))
      e2 == AppendIf(e1, transUnit.Source = EmptyString,
              ValidationError(MissingTransUnitSource,
                Sprintf("Translation unit '%s' in file '%s' is missing 'source' attribute",
                        <<transUnit.ID, file.Original>>)))
  IN AppendIf(e2, transUnit.Target = EmptyString,
       ValidationError(MissingTransUnitTarget,
         Sprintf("Translation unit '%s' in file '%s' is missing 'target' attribute",
                 <<transUnit.ID, file.Original>>)))

RECURSIVE AttributeLoop(_, _, _)
\* for idx, file := range d.Files, from position i (Go's idx is i - 1).
AttributeLoop(doc, i, errs) ==
  IF i > Len(doc.Files) THEN errs
  ELSE AttributeLoop(doc, i + 1, CheckFileAttributes(i - 1, doc.Files[i], errs))

RECURSIVE LanguageLoop(_, _, _, _, _)
LanguageLoop(doc, i, sourceLanguage, targetLanguage, errs) ==
  IF i > Len(doc.Files) THEN errs
  ELSE LanguageLoop(doc, i + 1, sourceLanguage, targetLanguage,
         CheckFileLanguages(doc.Files[i], sourceLanguage, targetLanguage, errs))

RECURSIVE TransUnitLoop(_, _, _)
TransUnitLoop(file, j, errs) ==
  IF j > Len(file.Body.TransUnits) THEN errs
  ELSE TransUnitLoop(file, j + 1,
         CheckTransUnit(j - 1, file.Body.TransUnits[j], file, errs))

RECURSIVE BodyLoop(_, _, _)
BodyLoop(doc, i, errs) ==
  IF i > Len(doc.Files) THEN errs
  ELSE BodyLoop(doc, i + 1, TransUnitLoop(doc.Files[i], 1, errs))

\* Document.Validate: the slice returned, or a run-time panic where the code
\* indexes d.Files[0] of a Document without Files.
Validate(doc) ==
  LET e1 == CheckVersion(doc, nil)
      e2 == AttributeLoop(doc, 1, e1)
  IN IF Len(doc.Files) = 0
     THEN [panic |-> TRUE, errors |-> nil]
     ELSE LET e3 == LanguageLoop(doc, 1, doc.Files[1].SourceLanguage,
                                 doc.Files[1].TargetLanguage, e2)
          IN [panic |-> FALSE, errors |-> BodyLoop(doc, 1, e3)]

\* Error without the case of the last code.
ErrorMutant(ve) ==
  LET code == CASE ve.Code = UnsupportedVersion -> "UnsupportedVersion"
                [] ve.Code = MissingOriginalAttribute -> "MissingOriginalAttribute"
                [] ve.Code = MissingSourceLanguage -> "MissingSourceLanguage"
                [] ve.Code = MissingTargetLanguage -> "MissingTargetLanguage"
                [] ve.Code = UnsupportedDatatype -> "UnsupportedDatatype"
                [] ve.Code = InconsistentSourceLanguage -> "InconsistentSourceLanguage"
                [] ve.Code = InconsistentTargetLanguage -> "InconsistentTargetLanguage"
                [] ve.Code = MissingTransUnitID -> "MissingTransUnitID"
                [] ve.Code = MissingTransUnitSource -> "MissingTransUnitSource"
                [] OTHER -> "Unknown"
  IN Sprintf("%s: %s", <<code, ve.Message>>)

\* ValidationError.Error
Error(ve) ==
  LET code == CASE ve.Code = UnsupportedVersion -> "UnsupportedVersion"
                [] ve.Code = MissingOriginalAttribute -> "MissingOriginalAttribute"
                [] ve.Code = MissingSourceLanguage -> "MissingSourceLanguage"
                [] ve.Code = MissingTargetLanguage -> "MissingTargetLanguage"
                [] ve.Code = UnsupportedDatatype -> "UnsupportedDatatype"
                [] ve.Code = InconsistentSourceLanguage -> "InconsistentSourceLanguage"
                [] ve.Code = InconsistentTargetLanguage -> "InconsistentTargetLanguage"
                [] ve.Code = MissingTransUnitID -> "MissingTransUnitID"
                [] ve.Code = MissingTransUnitSource -> "MissingTransUnitSource"
                [] ve.Code = MissingTransUnitTarget -> "MissingTransUnitTarget"
                [] OTHER -> "Unknown"
  IN Sprintf("%s: %s", <<code, ve.Message>>)

----------------------------------------------------------------------------
\* Document.IsComplete

RECURSIVE UnitsCompleteMutant(_, _)
\* The inner loop with "and" for "or": only a TransUnit with neither source
\* nor target counts.
UnitsCompleteMutant(units, j) ==
  IF j > Len(units) THEN TRUE
  ELSE IF units[j].Source = EmptyString /\ units[j].Target = EmptyString THEN FALSE
  ELSE UnitsCompleteMutant(units, j + 1)

RECURSIVE UnitsComplete(_, _)
\* The inner loop: FALSE at the first TransUnit with an empty source or target.
UnitsComplete(units, j) ==
  IF j > Len(units) THEN TRUE
  ELSE IF units[j].Source = EmptyString \/ units[j].Target = EmptyString THEN FALSE
  ELSE UnitsComplete(units, j + 1)

RECURSIVE FilesComplete(_, _)
FilesComplete(files, i) ==
  IF i > Len(files) THEN TRUE
  ELSE IF ~UnitsComplete(files[i].Body.TransUnits, 1) THEN FALSE
  ELSE FilesComplete(files, i + 1)

IsComplete(doc) == FilesComplete(doc.Files, 1)

----------------------------------------------------------------------------
\* The codec: encoding/xml driven by the struct tags of the model's types.
\* An element on the wire is [name, attrs, children, text]: its local name,
\* its attributes in order, its child elements in order and the character
\* data directly inside it, still escaped. An attribute is
\* [prefix, local, value], the value still escaped.

Attr(prefix, local, value) == [prefix |-> prefix, local |-> local, value |-> value]

Element(name, attrs, children, text) ==
  [name |-> name, attrs |-> attrs, children |-> children, text |-> text]

\* xml.Header
XmlHeader == "<?xml version=\"1.0\" encoding=\"UTF-8\"?>\n"

\* The escape xml.EscapeText writes for one character.
EscapeChar(ch) ==
  CASE ch = "\"" -> <<"&", "#", "3", "4", ";">>
    [] ch = "'"  -> <<"&", "#", "3", "9", ";">>
    [] ch = "&"  -> <<"&", "a", "m", "p", ";">>
    [] ch = "<"  -> <<"&", "l", "t", ";">>
    [] ch = ">"  -> <<"&", "g", "t", ";">>
    [] ch = "\t" -> <<"&", "#", "x", "9", ";">>
    [] ch = "\n" -> <<"&", "#", "x", "A", ";">>
    [] ch = "\r" -> <<"&", "#", "x", "D", ";">>
    [] OTHER     -> <<ch>>

RECURSIVE Concat(_, _, _)
\* The concatenation of parts[lo], ..., parts[hi].
Concat(parts, lo, hi) ==
  IF lo > hi THEN <<>>
  ELSE IF lo = hi THEN parts[lo]
  ELSE Concat(parts, lo, (lo + hi) \div 2)
         \o Concat(parts, ((lo + hi) \div 2) + 1, hi)

\* xml.EscapeText: each character's escape, in order.
EscapeText(s) == Concat([k \in 1..Len(s) |-> EscapeChar(s[k])], 1, Len(s))

\* The character references and predefined entities the decoder resolves.
Entities ==
  { <<<<"l", "t">>, "<">>, <<<<"g", "t">>, ">">>, <<<<"a", "m", "p">>, "&">>,
    <<<<"a", "p", "o", "s">>, "'">>, <<<<"q", "u", "o", "t">>, "\"">>,
    <<<<"#", "3", "4">>, "\"">>, <<<<"#", "3", "9">>, "'">>,
    <<<<"#", "x", "9">>, "\t">>, <<<<"#", "x", "A">>, "\n">>,
    <<<<"#", "x", "D">>, "\r">> }

IsEntity(name) == \E e \in Entities : e[1] = name

EntityChar(name) == (CHOOSE e \in Entities : e[1] = name)[2]

\* The position of the first ";" of w after position k, or 0.
Semicolon(w, k) ==
  IF \E j \in (k + 1)..Len(w) : w[j] = ";"
  THEN CHOOSE j \in (k + 1)..Len(w) :
         w[j] = ";" /\ \A i \in (k + 1)..(j - 1) : w[i] # ";"
  ELSE 0

\* Whether position k of w lies inside a reference: after its "&", up to
\* its ";".
InReference(w, k) ==
  \E j \in 1..(k - 1) : w[j] = "&" /\ \A i \in j..(k - 1) : w[i] # ";"

\* Character data the decoder accepts: no raw "<", every "&" opens a
\* reference it can resolve.
WellFormedText(w) ==
  \A k \in 1..Len(w) :
    /\ w[k] # "<"
    /\ w[k] = "&" =>
         /\ Semicolon(w, k) > k + 1
         /\ IsEntity(SubSeq(w, k + 1, Semicolon(w, k) - 1))

\* What the decoder makes of position k of well-formed character data: a
\* reference is resolved where it opens, a raw "\r" becomes "\n", and a raw
\* "\n" that follows a raw "\r" is dropped.
UnescapeAt(w, k) ==
  IF InReference(w, k) THEN <<>>
  ELSE IF w[k] = "&" THEN <<EntityChar(SubSeq(w, k + 1, Semicolon(w, k) - 1))>>
  ELSE IF w[k] = "\r" THEN <<"\n">>
  ELSE IF w[k] = "\n" /\ k > 1 /\ w[k - 1] = "\r" THEN <<>>
  ELSE <<w[k]>>

\* The decoder's reading of well-formed character data.
UnescapeText(w) == Concat([k \in 1..Len(w) |-> UnescapeAt(w, k)], 1, Len(w))

\* A field tagged `xml:"<local>,attr"`.
MarshalAttr(prefix, local, value) == Attr(prefix, local, EscapeText(value))

\* A string field tagged `xml:"<name>"`.
MarshalString(name, value) == Element(name, <<>>, <<>>, EscapeText(value))

MarshalTransUnit(tu) ==
  Element("trans-unit", <<MarshalAttr("", "id", tu.ID)>>,
          <<MarshalString("source", tu.Source), MarshalString("target", tu.Target),
            MarshalString("note", tu.Note)>>, <<>>)

MarshalTool(tool) ==
  Element("tool",
          <<MarshalAttr("", "tool-id", tool.ToolID),
            MarshalAttr("", "tool-name", tool.ToolName),
            MarshalAttr("", "tool-version", tool.ToolVersion),
            MarshalAttr("", "build-num", tool.BuildNum)>>, <<>>, <<>>)

MarshalHeader(header) == Element("header", <<>>, <<MarshalTool(header.Tool)>>, <<>>)

MarshalBody(body) ==
  Element("body", <<>>,
          [j \in 1..Len(body.TransUnits) |-> MarshalTransUnit(body.TransUnits[j])],
          <<>>)

MarshalFile(file) ==
  Element("file",
          <<MarshalAttr("", "original", file.Original),
            MarshalAttr("", "source-language", file.SourceLanguage),
            MarshalAttr("", "datatype", file.Datatype),
            MarshalAttr("", "target-language", file.TargetLanguage)>>,
          <<MarshalHeader(file.Header), MarshalBody(file.Body)>>, <<>>)

\* "urn:oasis:names:tc:xliff:document:1.2"
Xmlns ==
  <<"u", "r", "n", ":", "o", "a", "s", "i", "s", ":", "n", "a", "m", "e",
  "s", ":", "t", "c", ":", "x", "l", "i", "f", "f", ":", "d", "o", "c", "u",
  "m", "e", "n", "t", ":", "1", ".", "2">>

\* "http://www.w3.org/2001/XMLSchema-instance"
Xsi ==
  <<"h", "t", "t", "p", ":", "/", "/", "w", "w", "w", ".", "w", "3", ".",
  "o", "r", "g", "/", "2", "0", "0", "1", "/", "X", "M", "L", "S", "c", "h",
  "e", "m", "a", "-", "i", "n", "s", "t", "a", "n", "c", "e">>

\* Xmlns, a space and the address of xliff-core-1.2-strict.xsd
SchemaLocation ==
  <<"u", "r", "n", ":", "o", "a", "s", "i", "s", ":", "n", "a", "m", "e",
  "s", ":", "t", "c", ":", "x", "l", "i", "f", "f", ":", "d", "o", "c", "u",
  "m", "e", "n", "t", ":", "1", ".", "2", " ", "h", "t", "t", "p", ":", "/",
  "/", "d", "o", "c", "s", ".", "o", "a", "s", "i", "s", "-", "o", "p", "e",
  "n", ".", "o", "r", "g", "/", "x", "l", "i", "f", "f", "/", "v", "1", ".",
  "2", "/", "o", "s", "/", "x", "l", "i", "f", "f", "-", "c", "o", "r", "e",
  "-", "1", ".", "2", "-", "s", "t", "r", "i", "c", "t", ".", "x", "s",
  "d">>

\* DocumentExport with its Xmlns field tagged `xml:"version,attr"`.
ExportAttrsMutant ==
  <<MarshalAttr("", "version", Xmlns), MarshalAttr("xmlns", "xsi", Xsi),
    MarshalAttr("xsi", "schemaLocation", SchemaLocation)>>

\* The attributes DocumentExport adds to the root element.
ExportAttrs ==
  <<MarshalAttr("", "xmlns", Xmlns), MarshalAttr("xmlns", "xsi", Xsi),
    MarshalAttr("xsi", "schemaLocation", SchemaLocation)>>

\* xml.Marshal(&DocumentExport{Document: d, ...})
MarshalExport(doc) ==
  Element("xliff", <<MarshalAttr("", "version", doc.Version)>> \o ExportAttrs,
          [i \in 1..Len(doc.Files) |-> MarshalFile(doc.Files[i])], <<>>)

\* A field tagged `xml:"<local>,attr"` takes the value of every attribute of
\* that local name, the last one staying.
RECURSIVE UnmarshalAttr(_, _, _)
UnmarshalAttr(attrs, local, value) ==
  IF attrs = <<>> THEN value
  ELSE UnmarshalAttr(Tail(attrs), local,
         IF Head(attrs).local = local THEN UnescapeText(Head(attrs).value)
         ELSE value)

RECURSIVE UnmarshalString(_, _, _)
\* A string field tagged `xml:"<name>"` takes the character data of every
\* child element of that name, the last one staying.
UnmarshalString(children, name, value) ==
  IF children = <<>> THEN value
  ELSE UnmarshalString(Tail(children), name,
         IF Head(children).name = name THEN UnescapeText(Head(children).text)
         ELSE value)

UnmarshalTransUnit(e) ==
  TransUnit(UnmarshalAttr(e.attrs, "id", EmptyString),
            UnmarshalString(e.children, "source", EmptyString),
            UnmarshalString(e.children, "target", EmptyString),
            UnmarshalString(e.children, "note", EmptyString))

UnmarshalTool(e, tool) ==
  Tool(UnmarshalAttr(e.attrs, "tool-id", tool.ToolID),
       UnmarshalAttr(e.attrs, "tool-name", tool.ToolName),
       UnmarshalAttr(e.attrs, "tool-version", tool.ToolVersion),
       UnmarshalAttr(e.attrs, "build-num", tool.BuildNum))

RECURSIVE UnmarshalHeader(_, _)
UnmarshalHeader(children, header) ==
  IF children = <<>> THEN header
  ELSE UnmarshalHeader(Tail(children),
         IF Head(children).name = "tool"
         THEN Header(UnmarshalTool(Head(children), header.Tool))
         ELSE header)

RECURSIVE UnmarshalBody(_, _)
\* Each trans-unit child is appended to Body.TransUnits.
UnmarshalBody(children, body) ==
  IF children = <<>> THEN body
  ELSE UnmarshalBody(Tail(children),
         IF Head(children).name = "trans-unit"
         THEN Body(Append(body.TransUnits, UnmarshalTransUnit(Head(children))))
         ELSE body)

RECURSIVE UnmarshalFileChildren(_, _)
UnmarshalFileChildren(children, file) ==
  IF children = <<>> THEN file
  ELSE UnmarshalFileChildren(Tail(children),
         CASE Head(children).name = "header" ->
                [file EXCEPT !.Header = UnmarshalHeader(Head(children).children, @)]
           [] Head(children).name = "body" ->
                [file EXCEPT !.Body = UnmarshalBody(Head(children).children, @)]
           [] OTHER -> file)

UnmarshalFile(e) ==
  UnmarshalFileChildren(e.children,
    File(UnmarshalAttr(e.attrs, "original", EmptyString),
         UnmarshalAttr(e.attrs, "source-language", EmptyString),
         UnmarshalAttr(e.attrs, "datatype", EmptyString),
         UnmarshalAttr(e.attrs, "target-language", EmptyString),
         EmptyHeader, Body(<<>>)))

RECURSIVE UnmarshalFiles(_, _)
\* Each file child of the root is appended to Document.Files.
UnmarshalFiles(children, files) ==
  IF children = <<>> THEN files
  ELSE UnmarshalFiles(Tail(children),
         IF Head(children).name = "file"
         THEN Append(files, UnmarshalFile(Head(children)))
         ELSE files)

\* xml.Unmarshal(data, &document), for well-formed data.
UnmarshalDocument(root) ==
  Document(UnmarshalAttr(root.attrs, "version", EmptyString),
           UnmarshalFiles(root.children, <<>>))

RECURSIVE WellFormed(_)
\* Whether the decoder accepts the element: all its character data and
\* attribute values are well formed.
WellFormed(e) ==
  /\ WellFormedText(e.text)
  /\ \A i \in 1..Len(e.attrs) : WellFormedText(e.attrs[i].value)
  /\ \A i \in 1..Len(e.children) : WellFormed(e.children[i])

\* What ioutil.ReadFile finds at a path that does not exist.
NoFile == [exists |-> FALSE]

\* A file on disk: the XML declaration, if any, and the root element.
XmlFile(prolog, root) == [exists |-> TRUE, prolog |-> prolog, root |-> root]

\* FromFile: the Document and the error returned.
FromFile(file) ==
  IF ~file.exists
  THEN [d |-> ZeroDocument, err |-> errorsNew("no such file or directory")]
  ELSE IF ~WellFormed(file.root)
  THEN [d |-> ZeroDocument, err |-> errorsNew("XML syntax error")]
  ELSE [d |-> UnmarshalDocument(file.root), err |-> nil]

\* Document.ToFile: the bytes handed to ioutil.WriteFile.
ToFile(doc) == XmlFile(XmlHeader, MarshalExport(doc))

----------------------------------------------------------------------------
\* The values the callers of the model pass.

Char(c) == <<c>>

\* sl and tl of NewDocument.
SourceLanguages == {EmptyString, <<"d", "e">>}
TargetLanguages == {EmptyString, <<"e", "n">>}

\* source of AddTransUnit.
Sources == {EmptyString, <<"H", "i">>}

\* The options of AddTransUnit, and the sequences of at most MaxOpts of them.
Options == {WithNote(<<"n">>), WithTarget(<<"t">>)}

OptionLists == UNION {[1..n -> Options] : n \in 0..MaxOpts}

\* The Files of index i among units distributed over Files by owner.
UnitsOf(units, owner, i) ==
  LET F[k \in 0..Len(units)] ==
        IF k = 0 THEN <<>>
        ELSE IF owner[k] = i THEN Append(F[k - 1], units[k]) ELSE F[k - 1]
  IN F[Len(units)]

\* A Document of the given version whose File i has the attributes attrs[i]
\* and the units owned by i.
BuildDocument(version, attrs, units, owner) ==
  Document(version,
    [i \in 1..Len(attrs) |->
       File(attrs[i][1], attrs[i][2], attrs[i][3], attrs[i][4], EmptyHeader,
            Body(UnitsOf(units, owner, i)))])

\* The Documents built from the given versions, File attributes and
\* TransUnits: at most MaxFiles Files and MaxUnits TransUnits in all.
DocumentsOf(versions, fileKinds, unitKinds) ==
  { BuildDocument(x[1], x[2], x[3], x[4]) :
      x \in UNION { UNION {
             { y \in versions \X [1..n -> fileKinds] \X [1..m -> unitKinds]
                       \X [1..m -> 1..n] :
                 \A k \in 1..m : \A l \in k..m : y[4][k] <= y[4][l] } :
             m \in 0..(IF n = 0 THEN 0 ELSE MaxUnits) } : n \in 0..MaxFiles } }

Html == <<"h", "t", "m", "l">>

\* <<original, source-language, datatype, target-language>> of a File.
FileKinds ==
  { <<Char("a"), <<"d", "e">>, Plaintext, <<"e", "n">>>>,
    <<EmptyString, <<"d", "e">>, Plaintext, EmptyString>>,
    <<Char("b"), EmptyString, Html, <<"e", "n">>>>,
    <<Char("c"), <<"f", "r">>, Plaintext, <<"i", "t">>>> }

UnitKinds ==
  { TransUnit(Char("0"), Char("s"), Char("t"), Char("n")),
    TransUnit(EmptyString, Char("s"), EmptyString, EmptyString),
    TransUnit(<<"a", "b", "c">>, EmptyString, Char("t"), EmptyString),
    TransUnit(EmptyString, EmptyString, EmptyString, EmptyString) }

Versions == {Version12, <<"1", ".", "0">>}

\* The Documents given to Validate and IsComplete.
Documents == DocumentsOf(Versions, FileKinds, UnitKinds)

----------------------------------------------------------------------------
\* The state machine. d is the caller's Document; op names the last call,
\* err, errors and complete hold what it returned (the zero value when it
\* returns no such thing); panicked says that it ended in a run-time panic;
\* disk is the file at the path given to ToFile and FromFile.

Returned(o, e, es, c) ==
  /\ op' = o
  /\ err' = e
  /\ errors' = es
  /\ complete' = c

InitNew ==
  /\ \E sl \in SourceLanguages, tl \in TargetLanguages : d = NewDocument(sl, tl)
  /\ op = "NewDocument"
  /\ err = nil
  /\ errors = nil
  /\ complete = FALSE
  /\ panicked = FALSE
  /\ disk = NoFile

LastBody(doc) == doc.Files[Len(doc.Files)].Body.TransUnits

\* The number of TransUnits of a Document, over all its Files.
UnitCount(doc) ==
  LET F[i \in 0..Len(doc.Files)] ==
        IF i = 0 THEN 0 ELSE F[i - 1] + Len(doc.Files[i].Body.TransUnits)
  IN F[Len(doc.Files)]

AddTransUnitAct ==
  /\ ~panicked
  /\ UnitCount(d) <= MaxUnits
  /\ \E source \in Sources, opts \in OptionLists :
       LET r == AddTransUnit(d, source, opts)
       IN /\ d' = r.d
          /\ Returned("AddTransUnit", r.err, nil, FALSE)
  /\ UNCHANGED <<panicked, disk>>

ValidateAct ==
  /\ ~panicked
  /\ LET r == Validate(d)
     IN /\ panicked' = r.panic
        /\ Returned("Validate", nil, r.errors, FALSE)
  /\ UNCHANGED <<d, disk>>

IsCompleteAct ==
  /\ ~panicked
  /\ Returned("IsComplete", nil, nil, IsComplete(d))
  /\ UNCHANGED <<d, panicked, disk>>

Next == AddTransUnitAct \/ ValidateAct \/ IsCompleteAct

\* A Document made by NewDocument and grown by AddTransUnit.
Spec == InitNew /\ [][Next]_vars

InitDocument ==
  /\ d \in Documents
  /\ op = "Document"
  /\ err = nil
  /\ errors = nil
  /\ complete = FALSE
  /\ panicked = FALSE
  /\ disk = NoFile

NextValidate == ValidateAct \/ IsCompleteAct

\* Validate and IsComplete on any Document.
SpecValidate == InitDocument /\ [][NextValidate]_vars

\* <<original, source-language, datatype, target-language>> of the Files of
\* the Documents given to AddTransUnit.
AddFileKinds ==
  { <<Char("a"), <<"d", "e">>, Plaintext, <<"e", "n">>>>,
    <<Char("c"), <<"f", "r">>, Plaintext, <<"i", "t">>>> }

\* Their TransUnits: ids that are numbers, signed numbers, and no numbers.
AddUnitKinds ==
  { TransUnit(Char("0"), Char("s"), Char("t"), Char("n")),
    TransUnit(<<"a", "b", "c">>, Char("s"), EmptyString, EmptyString),
    TransUnit(EmptyString, Char("s"), Char("t"), EmptyString),
    TransUnit(<<"+", "9">>, Char("s"), Char("t"), EmptyString) }

AddDocuments == DocumentsOf({Version12}, AddFileKinds, AddUnitKinds)

InitAdd ==
  /\ d \in AddDocuments
  /\ op = "Document"
  /\ err = nil
  /\ errors = nil
  /\ complete = FALSE
  /\ panicked = FALSE
  /\ disk = NoFile

NextAdd == AddTransUnitAct

\* AddTransUnit on any Document.
SpecAdd == InitAdd /\ [][NextAdd]_vars

----------------------------------------------------------------------------
\* The files given to FromFile, and the codec's actions.

\* The escape a hand-written file uses for one character: the predefined
\* entities, everything else as it is.
HandChar(ch) ==
  CASE ch = "<"  -> <<"&", "l", "t", ";">>
    [] ch = "&"  -> <<"&", "a", "m", "p", ";">>
    [] ch = "\"" -> <<"&", "q", "u", "o", "t", ";">>
    [] ch = "'"  -> <<"&", "a", "p", "o", "s", ";">>
    [] OTHER     -> <<ch>>

HandText(s) == Concat([k \in 1..Len(s) |-> HandChar(s[k])], 1, Len(s))

\* An element holding text, left out when the text is empty.
HandString(name, value) ==
  IF value = <<>> THEN <<>> ELSE <<Element(name, <<>>, <<>>, HandText(value))>>

\* A trans-unit as a tool other than this package writes it: target and
\* note only when there is one, and an element the model has no field for.
HandUnit(tu) ==
  Element("trans-unit", <<Attr("", "id", HandText(tu.ID))>>,
          HandString("source", tu.Source) \o HandString("target", tu.Target)
            \o <<Element("alt-trans", <<>>, <<>>, <<>>)>>
            \o HandString("note", tu.Note),
          <<"\n">>)

\* A file element with its attributes in another order, an attribute the
\* model has no field for, and no header.
HandFile(file) ==
  Element("file",
          <<Attr("", "source-language", HandText(file.SourceLanguage)),
            Attr("", "target-language", HandText(file.TargetLanguage)),
            Attr("xml", "space", <<"p">>),
            Attr("", "datatype", HandText(file.Datatype)),
            Attr("", "original", HandText(file.Original))>>,
          <<Element("body", <<>>,
                    [j \in 1..Len(file.Body.TransUnits) |->
                       HandUnit(file.Body.TransUnits[j])], <<"\n">>)>>,
          <<"\n">>)

\* A file without XML declaration and without namespace attributes.
HandWritten(doc) ==
  XmlFile("",
          Element("xliff", <<Attr("", "version", HandText(doc.Version))>>,
                  [i \in 1..Len(doc.Files) |-> HandFile(doc.Files[i])], <<"\n">>))

\* A file that is no well-formed XML.
BadXmlFile == XmlFile("", Element("xliff", <<>>, <<>>, <<"&", "x">>))

CodecFileKinds ==
  { <<Char("a"), <<"d", "e">>, Plaintext, <<"e", "n">>>>,
    <<<<"<", "&", "\"">>, EmptyString, <<"'", ">">>, <<"\r", "\n">>>> }

CodecUnitKinds ==
  { TransUnit(Char("0"), <<"a", "<", "b">>, <<"x", ">", "y">>, EmptyString),
    TransUnit(<<"&", "1">>, Char("&"), EmptyString, <<"'", "\"">>),
    TransUnit(EmptyString, <<"\r", "\n">>, <<"\t", "\r">>, Char("\n")) }

CodecDocuments == DocumentsOf({Version12}, CodecFileKinds, CodecUnitKinds)

\* Files written by hand, files written by ToFile, a path without a file,
\* and a file that is no XML.
InputFiles ==
  {HandWritten(doc) : doc \in CodecDocuments}
    \cup {ToFile(doc) : doc \in CodecDocuments}
    \cup {NoFile, BadXmlFile}

InitFromFile ==
  /\ disk \in InputFiles
  /\ d = FromFile(disk).d
  /\ err = FromFile(disk).err
  /\ op = "FromFile"
  /\ errors = nil
  /\ complete = FALSE
  /\ panicked = FALSE

FromFileAct ==
  /\ ~panicked
  /\ d' = FromFile(disk).d
  /\ Returned("FromFile", FromFile(disk).err, nil, FALSE)
  /\ UNCHANGED <<panicked, disk>>

\* ToFile; ioutil.WriteFile either writes the file or cannot open it.
ToFileAct ==
  /\ ~panicked
  /\ \E written \in BOOLEAN :
       IF written
       THEN /\ disk' = ToFile(d)
            /\ Returned("ToFile", nil, nil, FALSE)
       ELSE /\ disk' = disk
            /\ Returned("ToFile", errorsNew("permission denied"), nil, FALSE)
  /\ UNCHANGED <<d, panicked>>

NextCodec == FromFileAct \/ ToFileAct

\* Documents read from disk, written back and read again.
SpecCodec == InitFromFile /\ [][NextCodec]_vars

----------------------------------------------------------------------------
\* Properties.

Codes(errs) == [i \in 1..Len(errs) |-> errs[i].Code]

HasCode(errs, code) == \E i \in 1..Len(errs) : errs[i].Code = code

\* The decimal numeral of a number below 100.
Numeral(n) ==
  IF n < 10 THEN <<DigitChars[n + 1]>>
  ELSE <<DigitChars[(n \div 10) + 1], DigitChars[(n % 10) + 1]>>

\* C1: on a Document made by NewDocument, every AddTransUnit call succeeds
\* and adds one TransUnit to the single File, and the ids of the File's
\* TransUnits are "0", "1", ..., in append order.
C1_SequentialIDs ==
  /\ [](/\ Len(d.Files) = 1
        /\ \A j \in 1..Len(LastBody(d)) : LastBody(d)[j].ID = Numeral(j - 1)
        /\ (op = "AddTransUnit" => err = nil))
  /\ [][op' = "AddTransUnit" => Len(LastBody(d')) = Len(LastBody(d)) + 1]_vars

\* The test's case: "Hallo Welt" alone, then a unit with a note and a target.
C1_Witness ==
  /\ op = "AddTransUnit"
  /\ err = nil
  /\ Len(LastBody(d)) = 2
  /\ LastBody(d)[1] = TransUnit(Char("0"), <<"H", "i">>, EmptyString, EmptyString)
  /\ LastBody(d)[2] = TransUnit(Char("1"), <<"H", "i">>, Char("t"), Char("n"))

\* The checks of the battery in their order, each with whether the Document
\* violates it.
Battery(doc) ==
  LET n == Len(doc.Files)
      version == <<[code |-> UnsupportedVersion, hit |-> doc.Version # Version12]>>
      attributes ==
        [k \in 1..(4 * n) |->
           LET f == doc.Files[((k - 1) \div 4) + 1]
               c == (k - 1) % 4
           IN CASE c = 0 -> [code |-> MissingOriginalAttribute,
                             hit |-> Len(f.Original) = 0]
                [] c = 1 -> [code |-> MissingSourceLanguage,
                             hit |-> Len(f.SourceLanguage) = 0]
                [] c = 2 -> [code |-> MissingTargetLanguage,
                             hit |-> Len(f.TargetLanguage) = 0]
                [] c = 3 -> [code |-> UnsupportedDatatype,
                             hit |-> f.Datatype # Plaintext]]
      languages ==
        [k \in 1..(2 * n) |->
           LET f == doc.Files[((k - 1) \div 2) + 1]
           IN IF (k - 1) % 2 = 0
              THEN [code |-> InconsistentSourceLanguage,
                    hit |-> f.SourceLanguage # doc.Files[1].SourceLanguage]
              ELSE [code |-> InconsistentTargetLanguage,
                    hit |-> f.TargetLanguage # doc.Files[1].TargetLanguage]]
      unitsOf(f) ==
        [k \in 1..(3 * Len(f.Body.TransUnits)) |->
           LET u == f.Body.TransUnits[((k - 1) \div 3) + 1]
               c == (k - 1) % 3
           IN CASE c = 0 -> [code |-> MissingTransUnitID, hit |-> Len(u.ID) = 0]
                [] c = 1 -> [code |-> MissingTransUnitSource,
                             hit |-> Len(u.Source) = 0]
                [] c = 2 -> [code |-> MissingTransUnitTarget,
                             hit |-> Len(u.Target) = 0]]
      units[i \in 0..n] ==
        IF i = 0 THEN <<>> ELSE units[i - 1] \o unitsOf(doc.Files[i])
  IN version \o attributes \o languages \o units[n]

IsHit(check) == check.hit

\* C2: on a Document with at least one File, Validate returns the findings
\* of the violated checks of the battery, all of them, in the battery's
\* order, and nil exactly when no check is violated.
C2_ValidateIsTheBattery ==
  (op = "Validate" /\ Len(d.Files) >= 1) =>
    /\ ~panicked
    /\ Codes(errors) = [k \in 1..Len(SelectSeq(Battery(d), IsHit)) |->
                         SelectSeq(Battery(d), IsHit)[k].code]
    /\ (errors = nil <=> \A k \in 1..Len(Battery(d)) : ~Battery(d)[k].hit)

\* Two Files and a TransUnit, with findings of all four groups of checks.
C2_Witness ==
  /\ op = "Validate"
  /\ Len(d.Files) = 2
  /\ UnitCount(d) >= 1
  /\ Len(errors) >= 8
  /\ errors[1].Code = UnsupportedVersion
  /\ errors[2].Code = MissingOriginalAttribute
  /\ HasCode(errors, InconsistentSourceLanguage)
  /\ errors[Len(errors)].Code = MissingTransUnitTarget

\* C3: Validate never fails outright: on every Document the call completes
\* and returns its findings.
C3_ValidateNeverFails == op = "Validate" => ~panicked

AllUnitsFilled(doc) ==
  \A i \in 1..Len(doc.Files) :
    \A j \in 1..Len(doc.Files[i].Body.TransUnits) :
      /\ Len(doc.Files[i].Body.TransUnits[j].Source) > 0
      /\ Len(doc.Files[i].Body.TransUnits[j].Target) > 0

\* C4: IsComplete returns true if and only if every TransUnit of every File
\* has a non-empty source and a non-empty target; a Document without Files
\* or without TransUnits is complete.
C4_IsCompleteIffAllFilled ==
  op = "IsComplete" =>
    /\ complete <=> AllUnitsFilled(d)
    /\ (UnitCount(d) = 0 => complete)

\* A first File whose only TransUnit is filled, and a second File with a
\* TransUnit that has a source and no target.
C4_Witness ==
  /\ op = "IsComplete"
  /\ ~complete
  /\ Len(d.Files) = 2
  /\ Len(d.Files[1].Body.TransUnits) = 1
  /\ Len(d.Files[2].Body.TransUnits) = 1
  /\ AllUnitsFilled(Document(d.Version, <<d.Files[1]>>))
  /\ Len(d.Files[2].Body.TransUnits[1].Source) > 0
  /\ Len(d.Files[2].Body.TransUnits[1].Target) = 0

\* C6: AddTransUnit on a Document without Files returns the no-files error
\* and leaves the Document as it is.
C6_NoFilesError ==
  [][(Len(d.Files) = 0 /\ op' = "AddTransUnit") =>
       /\ err' = errorsNew("document does not contain a file")
       /\ d' = d
       /\ Len(d'.Files) = 0]_vars

C6_Witness ==
  /\ op = "AddTransUnit"
  /\ Len(d.Files) = 0
  /\ err = errorsNew("document does not contain a file")

\* Whether s is the decimal numeral of an integer: an optional sign and then
\* digits, at least one.
IsInteger(s) ==
  LET signed == Len(s) > 0 /\ s[1] \in {"+", "-"}
      first  == IF signed THEN 2 ELSE 1
  IN /\ Len(s) >= first
     /\ \A k \in first..Len(s) :
          s[k] \in {"0", "1", "2", "3", "4", "5", "6", "7", "8", "9"}

BadLastID(doc) ==
  /\ Len(doc.Files) > 0
  /\ Len(LastBody(doc)) > 0
  /\ ~IsInteger(LastBody(doc)[Len(LastBody(doc))].ID)

\* C7: when the id of the last TransUnit of the last File is no integer,
\* AddTransUnit returns the invalid-last-id error and appends nothing, so
\* that the Document stays as it is and every later call fails alike.
C7_InvalidLastID ==
  [][(BadLastID(d) /\ op' = "AddTransUnit") =>
       /\ err' = errorsNew(Sprint(<<"last TransUnit ID is not a number:",
                                    LastBody(d)[Len(LastBody(d))].ID>>))
       /\ d' = d
       /\ BadLastID(d')]_vars

C7_Witness ==
  /\ op = "AddTransUnit"
  /\ BadLastID(d)
  /\ LastBody(d)[Len(LastBody(d))].ID = <<"a", "b", "c">>
  /\ err = errorsNew(Sprint(<<"last TransUnit ID is not a number:",
                              <<"a", "b", "c">>>>))

\* The names of the ten codes, in the order of their constants.
CodeNames ==
  <<"UnsupportedVersion", "MissingOriginalAttribute", "MissingSourceLanguage",
    "MissingTargetLanguage", "UnsupportedDatatype", "InconsistentSourceLanguage",
    "InconsistentTargetLanguage", "MissingTransUnitID", "MissingTransUnitSource",
    "MissingTransUnitTarget">>

\* C8: every finding Validate returns carries one of the ten codes, and its
\* Error() is "<name of the code>: <message>", never "Unknown: ...".
C8_ErrorNamesTheCode ==
  op = "Validate" =>
    \A i \in 1..Len(errors) :
      /\ errors[i].Code \in 0..9
      /\ Error(errors[i]) =
           Sprintf("%s: %s", <<CodeNames[errors[i].Code + 1], errors[i].Message>>)
      /\ Error(errors[i])[2][1] # "Unknown"

\* A Validate that returned findings of all ten codes.
C8_Witness ==
  /\ op = "Validate"
  /\ {errors[i].Code : i \in 1..Len(errors)} = 0..9

\* C9: a successful AddTransUnit changes the Document only by appending one
\* TransUnit at the end of the Body of the last File.
C9_AppendsToLastFileOnly ==
  [][(op' = "AddTransUnit" /\ err' = nil) =>
       LET n == Len(d.Files)
       IN /\ d'.Version = d.Version
          /\ Len(d'.Files) = n
          /\ \A i \in 1..(n - 1) : d'.Files[i] = d.Files[i]
          /\ [d'.Files[n] EXCEPT !.Body = Body(<<>>)]
               = [d.Files[n] EXCEPT !.Body = Body(<<>>)]
          /\ Len(LastBody(d')) = Len(LastBody(d)) + 1
          /\ SubSeq(LastBody(d'), 1, Len(LastBody(d))) = LastBody(d)]_vars

\* A successful call on a Document of two Files, both with TransUnits.
C9_Witness ==
  /\ op = "AddTransUnit"
  /\ err = nil
  /\ Len(d.Files) = 2
  /\ Len(d.Files[1].Body.TransUnits) >= 1
  /\ Len(d.Files[2].Body.TransUnits) >= 2

\* C10: on a Document made by NewDocument and grown by AddTransUnit,
\* Validate always returns a MissingOriginalAttribute finding.
C10_NeverValid ==
  op = "Validate" => (~panicked /\ HasCode(errors, MissingOriginalAttribute))

\* Languages given and every TransUnit filled: the only finding is the
\* missing original.
C10_Witness ==
  /\ op = "Validate"
  /\ Len(LastBody(d)) >= 1
  /\ Codes(errors) = <<MissingOriginalAttribute>>

\* The fields of a Document that the format defines.
Modeled(doc) ==
  [version |-> doc.Version,
   files |-> [i \in 1..Len(doc.Files) |->
                [original |-> doc.Files[i].Original,
                 sourceLanguage |-> doc.Files[i].SourceLanguage,
                 targetLanguage |-> doc.Files[i].TargetLanguage,
                 datatype |-> doc.Files[i].Datatype,
                 units |-> doc.Files[i].Body.TransUnits]]]

\* C5: for a Document d read by FromFile, reading the file ToFile writes
\* for d succeeds and gives a Document equal to d in version, Files and
\* TransUnits; the attributes ToFile adds to the root make no difference.
C5_RoundTrip ==
  (op = "FromFile" /\ err = nil) =>
    /\ FromFile(ToFile(d)).err = nil
    /\ Modeled(FromFile(ToFile(d)).d) = Modeled(d)

HasChar(s, ch) == \E k \in 1..Len(s) : s[k] = ch

\* A Document read from a hand-written file (the line break of a source
\* was "\r\n" there), written by ToFile and read back; a source holds "<".
C5_Witness ==
  /\ op = "FromFile"
  /\ err = nil
  /\ disk = ToFile(d)
  /\ Len(d.Files) = 2
  /\ \E i \in 1..2 : \E j \in 1..Len(d.Files[i].Body.TransUnits) :
       HasChar(d.Files[i].Body.TransUnits[j].Source, "<")
  /\ \E i \in 1..2 : \E j \in 1..Len(d.Files[i].Body.TransUnits) :
       d.Files[i].Body.TransUnits[j].Source = <<"\n">>

====
